---- MODULE Spec2Model ----
(***************************************************************************)
(* AES-256-GCM applet prelude (crates/prelude/src/crypto/gcm.rs).          *)
(*                                                                         *)
(* The six public functions are thin wrappers that marshal pointers into   *)
(* the applet's linear memory and hand them to the host.  The model keeps  *)
(* the linear memory (mem), the host's fixed capability (host) and a       *)
(* record of the most recent wrapper call (call).  The host primitives     *)
(* (api::support, api::encrypt, api::decrypt) and Error::to_result live    *)
(* outside gcm.rs; they are modelled from the specification (sections 4,   *)
(* 6, 7) with an ideal, collision-free tag on the bounded input domain.    *)
(***************************************************************************)
EXTENDS Integers, Sequences, FiniteSets, TLC

VARIABLES host, mem, call

vars == <<host, mem, call>>

(***************************************************************************)
(* Bounds of the model.                                                    *)
(***************************************************************************)
\* longest cleartext / ciphertext / in-place buffer
MaxLen == 2
\* longest associated data
MaxAad == 1
\* host capability bitmasks range over 0..MaxSupport (stands for u32)
MaxSupport == 4
\* host status codes range over -MaxStatus..MaxStatus (stands for isize)
MaxStatus == 4

(***************************************************************************)
(* Program constants.                                                      *)
(***************************************************************************)
\* key: &[u8; 32]
KeyLen == 32
\* iv: &[u8; 12]
IvLen == 12
\* tag: [u8; 16]
TagLen == 16
\* u8 values are 0 .. ByteMod-1
ByteMod == 256
\* core::ptr::null()
NullPtr == 0
\* pointer of a Vec<u8> / slice that owns no allocation (align_of::<u8>())
DanglingPtr == 1
\* api::Support::NoCopy as u32
NoCopy == 0
\* api::Support::InPlaceNoCopy as u32
InPlaceNoCopy == 1

\* host status codes (api results); every other non-zero code is an
\* unnamed host failure
CodeUnsupported == -1
CodeInvalid == -2
CodeAuth == -3

Byte == 0 .. (ByteMod - 1)
StatusRange == (0 - MaxStatus) .. MaxStatus

(***************************************************************************)
(* Linear memory of the applet.  Address 0 is the null pointer, address 1  *)
(* the dangling pointer of empty vectors; the caller's objects and the     *)
(* wrapper's allocations follow.                                           *)
(***************************************************************************)
KeyAt == DanglingPtr + 1
IvAt == KeyAt + KeyLen
AadAt == IvAt + IvLen
BufAt == AadAt + MaxAad
TagAt == BufAt + MaxLen
HeapAt == TagAt + TagLen
OutTagAt == HeapAt + MaxLen
MemTop == OutTagAt + TagLen - 1

Addr == DanglingPtr .. MemTop

Zeros(n) == [i \in 1 .. n |-> 0]

Read(m, ptr, len) == [i \in 1 .. len |-> m[ptr + i - 1]]

Write(m, ptr, bytes) ==
  [a \in DOMAIN m |->
     IF a >= ptr /\ a < ptr + Len(bytes) THEN bytes[a - ptr + 1] ELSE m[a]]

Slice(ptr, len) == [ptr |-> ptr, len |-> len]

(***************************************************************************)
(* Bit operations of u32, computed digit by digit.                         *)
(***************************************************************************)
RECURSIVE Shl(_, _)
Shl(x, n) == IF n = 0 THEN x ELSE Shl(2 * x, n - 1)

RECURSIVE BitAnd(_, _)
BitAnd(a, b) ==
  IF a = 0 \/ b = 0 THEN 0
  ELSE (a % 2) * (b % 2) + 2 * BitAnd(a \div 2, b \div 2)

(***************************************************************************)
(* The host (wasefire_applet_api::crypto::gcm), modelled from the          *)
(* specification.  A host is a fixed record: the capability bitmask it     *)
(* reports and, per aliasing mode, the status it reports for every call    *)
(* in that mode (0: the mode functions).  The descriptor never claims a    *)
(* mode that does not function.                                            *)
(***************************************************************************)
ModeStatus == {0, CodeUnsupported}

Hosts ==
  {h \in [support : 0 .. MaxSupport, copy : ModeStatus, inplace : ModeStatus] :
     /\ (BitAnd(h.support, Shl(1, NoCopy)) # 0 => h.copy = 0)
     /\ (BitAnd(h.support, Shl(1, InPlaceNoCopy)) # 0 => h.inplace = 0)}

\* api::support(): the bitmask fetched from the host
api_support(h) == h.support

\* the sum of the bytes of s: any single-bit flip changes it modulo ByteMod
RECURSIVE SumTo(_, _)
SumTo(s, n) == IF n = 0 THEN 0 ELSE s[n] + SumTo(s, n - 1)
Sum(s) == SumTo(s, Len(s))

\* keystream byte i under (key, iv), from their digest d
Digest(key, iv) == (Sum(key) + Sum(iv)) % ByteMod
Stream(d, i) == (d + i) % ByteMod

Seal(key, iv, clear) ==
  LET d == Digest(key, iv)
  IN  [i \in 1 .. Len(clear) |-> (clear[i] + Stream(d, i)) % ByteMod]

Open(key, iv, text) ==
  LET d == Digest(key, iv)
  IN  [i \in 1 .. Len(text) |-> (text[i] + ByteMod - Stream(d, i)) % ByteMod]

\* The 16-byte tag binding key, nonce, AAD and ciphertext: an ideal tag,
\* injective on the bounded domain (4 + MaxAad + MaxLen <= TagLen).
Tag16(key, iv, aad, text) ==
  LET body == <<(1 + Sum(key)) % ByteMod, Sum(iv) % ByteMod, Len(aad), Len(text)>>
              \o aad \o text
  IN  [i \in 1 .. TagLen |-> IF i <= Len(body) THEN body[i] ELSE 0]

InRange(ptr, len) == ptr # NullPtr /\ ptr >= DanglingPtr /\ ptr + len - 1 <= MemTop

BadParams(p) ==
  \/ ~InRange(p.key, KeyLen)
  \/ ~InRange(p.iv, IvLen)
  \/ ~InRange(p.aad, p.aad_len)
  \/ ~InRange(p.tag, TagLen)
  \/ p.length < 0
  \/ p.aad_len < 0

Min(a, b) == IF a <= b THEN a ELSE b

Prefix(new, old, n) == [i \in 1 .. Len(old) |-> IF i <= n THEN new[i] ELSE old[i]]

\* api::encrypt(params): a null clear pointer selects the in-place mode.
\* e is the host's behaviour that the parameters do not determine: an
\* internal failure status (0: none) and how many output bytes a failing
\* call has already written.
HostEncrypt(h, m, p, e) ==
  LET inplace == p.clear = NullPtr
      src == IF inplace THEN p.cipher ELSE p.clear
      bad == BadParams(p) \/ ~InRange(p.cipher, p.length) \/ ~InRange(src, p.length)
      mode == IF inplace THEN h.inplace ELSE h.copy
      key == Read(m, p.key, KeyLen)
      iv == Read(m, p.iv, IvLen)
      aad == Read(m, p.aad, p.aad_len)
      clear == Read(m, src, p.length)
      old == Read(m, p.cipher, p.length)
      text == Seal(key, iv, clear)
  IN  IF bad THEN [res |-> CodeInvalid, mem |-> m]
      ELSE IF mode # 0 THEN [res |-> mode, mem |-> m]
      ELSE IF e.fault # 0
        THEN [res |-> e.fault,
              mem |-> Write(m, p.cipher, Prefix(text, old, Min(e.partial, p.length)))]
      ELSE [res |-> 0,
            mem |-> Write(Write(m, p.cipher, text), p.tag, Tag16(key, iv, aad, text))]

\* api::decrypt(params): a null cipher pointer selects the in-place mode;
\* the tag is recomputed over (key, iv, aad, ciphertext) and compared.
HostDecrypt(h, m, p, e) ==
  LET inplace == p.cipher = NullPtr
      src == IF inplace THEN p.clear ELSE p.cipher
      bad == BadParams(p) \/ ~InRange(p.clear, p.length) \/ ~InRange(src, p.length)
      mode == IF inplace THEN h.inplace ELSE h.copy
      key == Read(m, p.key, KeyLen)
      iv == Read(m, p.iv, IvLen)
      aad == Read(m, p.aad, p.aad_len)
      text == Read(m, src, p.length)
      old == Read(m, p.clear, p.length)
      clear == Open(key, iv, text)
      res == IF e.fault # 0 THEN e.fault
             ELSE IF Read(m, p.tag, TagLen) # Tag16(key, iv, aad, text) THEN CodeAuth
             ELSE 0
  IN  IF bad THEN [res |-> CodeInvalid, mem |-> m]
      ELSE IF mode # 0 THEN [res |-> mode, mem |-> m]
      ELSE IF res # 0
        THEN [res |-> res,
              mem |-> Write(m, p.clear, Prefix(clear, old, Min(e.partial, p.length)))]
      ELSE [res |-> 0, mem |-> Write(m, p.clear, clear)]

(***************************************************************************)
(* super::Error (crates/prelude/src/crypto.rs), modelled from the          *)
(* specification's error taxonomy: 0 is success, every other status is     *)
(* exactly one error kind.                                                 *)
(***************************************************************************)
ErrorKinds == {"Unsupported", "InvalidParameters", "AuthenticationFailure", "InternalFailure"}

to_result(res) ==
  IF res = 0 THEN "Ok"
  ELSE IF res = CodeUnsupported THEN "Unsupported"
  ELSE IF res = CodeInvalid THEN "InvalidParameters"
  ELSE IF res = CodeAuth THEN "AuthenticationFailure"
  ELSE "InternalFailure"

\* Result<_, Error>: the payload a wrapper hands back (text, tag) is empty
\* when the variant carries none.
Ok(text, tag) == [kind |-> "Ok", text |-> text, tag |-> tag]
Err(kind) == [kind |-> kind, text |-> <<>>, tag |-> <<>>]

(***************************************************************************)
(* The wrappers of gcm.rs.  A reference argument is its address in mem, a  *)
(* slice argument a record [ptr, len].                                     *)
(***************************************************************************)

\* a variant of is_supported that tests the NoCopy bit alone
is_supported_bit0(h) == BitAnd(api_support(h), Shl(1, NoCopy)) # 0

\* is_supported(): support != 0
is_supported(h) == api_support(h) # 0

\* a variant of support that shifts the masked value, (support & 1) << bit
support_shifted(h) ==
  [no_copy |-> Shl(BitAnd(api_support(h), 1), NoCopy) # 0,
   in_place_no_copy |-> Shl(BitAnd(api_support(h), 1), InPlaceNoCopy) # 0]

\* a variant of support whose no_copy flag forgets the mask
support_unmasked(h) ==
  [no_copy |-> api_support(h) # 0,
   in_place_no_copy |-> BitAnd(api_support(h), Shl(1, InPlaceNoCopy)) # 0]

\* support(): the two flags decoded from the bitmask
support(h) ==
  [no_copy |-> BitAnd(api_support(h), Shl(1, NoCopy)) # 0,
   in_place_no_copy |-> BitAnd(api_support(h), Shl(1, InPlaceNoCopy)) # 0]

\* vec![0; n].as_mut_ptr(): a fresh allocation; a vector of length 0 owns
\* no allocation and its pointer dangles
VecPtr(n) == IF n = 0 THEN DanglingPtr ELSE HeapAt

\* a variant of Finish that takes only a negative status for a failure
Finish_negative(res, value) == IF res < 0 THEN Err(to_result(res)) ELSE value

\* a variant of Finish that reports every failure as the same error
Finish_collapsed(res, value) ==
  IF to_result(res) # "Ok" THEN Err("InternalFailure") ELSE value

\* Error::to_result(res)?; Ok(value)
Finish(res, value) == IF to_result(res) # "Ok" THEN Err(to_result(res)) ELSE value

\* a variant of encrypt_params that passes the AAD length as the length
encrypt_params_aadlen(key, iv, aad, clear, text, tag) ==
  [key |-> key, iv |-> iv, aad |-> aad.ptr, aad_len |-> aad.len,
   length |-> aad.len, clear |-> clear.ptr, cipher |-> text, tag |-> tag]

\* api::encrypt::Params of encrypt
encrypt_params(key, iv, aad, clear, text, tag) ==
  [key |-> key, iv |-> iv, aad |-> aad.ptr, aad_len |-> aad.len,
   length |-> clear.len, clear |-> clear.ptr, cipher |-> text, tag |-> tag]

encrypt(h, m, key, iv, aad, clear, e) ==
  LET text == VecPtr(clear.len)
      m1 == Write(Write(m, text, Zeros(clear.len)), OutTagAt, Zeros(TagLen))
      params == encrypt_params(key, iv, aad, clear, text, OutTagAt)
      r == HostEncrypt(h, m1, params, e)
  IN  [params |-> params, res |-> r.res, mem |-> r.mem,
       result |-> Finish(r.res, Ok(Read(r.mem, text, clear.len),
                                   Read(r.mem, OutTagAt, TagLen)))]

\* a variant of encrypt_in_place_params that passes the AAD length as the
\* length
encrypt_in_place_params_aadlen(key, iv, aad, buffer, tag) ==
  [key |-> key, iv |-> iv, aad |-> aad.ptr, aad_len |-> aad.len,
   length |-> aad.len, clear |-> NullPtr, cipher |-> buffer.ptr, tag |-> tag]

\* api::encrypt::Params of encrypt_in_place
encrypt_in_place_params(key, iv, aad, buffer, tag) ==
  [key |-> key, iv |-> iv, aad |-> aad.ptr, aad_len |-> aad.len,
   length |-> buffer.len, clear |-> NullPtr, cipher |-> buffer.ptr, tag |-> tag]

encrypt_in_place(h, m, key, iv, aad, buffer, e) ==
  LET m1 == Write(m, OutTagAt, Zeros(TagLen))
      params == encrypt_in_place_params(key, iv, aad, buffer, OutTagAt)
      r == HostEncrypt(h, m1, params, e)
  IN  [params |-> params, res |-> r.res, mem |-> r.mem,
       result |-> Finish(r.res, Ok(<<>>, Read(r.mem, OutTagAt, TagLen)))]

\* a variant of decrypt_params that decrypts into the Cipher's own text
decrypt_params_alias(key, iv, aad, cipher, clear) ==
  [key |-> key, iv |-> iv, aad |-> aad.ptr, aad_len |-> aad.len,
   tag |-> cipher.tag, length |-> cipher.text.len, cipher |-> cipher.text.ptr,
   clear |-> cipher.text.ptr]

\* a variant of decrypt_params that passes no associated data
decrypt_params_noaad(key, iv, aad, cipher, clear) ==
  [key |-> key, iv |-> iv, aad |-> aad.ptr, aad_len |-> 0,
   tag |-> cipher.tag, length |-> cipher.text.len, cipher |-> cipher.text.ptr,
   clear |-> clear]

\* api::decrypt::Params of decrypt; cipher is the &Cipher: its text slice
\* and the address of its tag
decrypt_params(key, iv, aad, cipher, clear) ==
  [key |-> key, iv |-> iv, aad |-> aad.ptr, aad_len |-> aad.len,
   tag |-> cipher.tag, length |-> cipher.text.len, cipher |-> cipher.text.ptr,
   clear |-> clear]

\* a variant of decrypt that drops the status and returns the buffer
decrypt_unchecked(h, m, key, iv, aad, cipher, e) ==
  LET clear == VecPtr(cipher.text.len)
      m1 == Write(m, clear, Zeros(cipher.text.len))
      params == decrypt_params(key, iv, aad, cipher, clear)
      r == HostDecrypt(h, m1, params, e)
  IN  [params |-> params, res |-> r.res, mem |-> r.mem,
       result |-> Ok(Read(r.mem, clear, cipher.text.len), <<>>)]

decrypt(h, m, key, iv, aad, cipher, e) ==
  LET clear == VecPtr(cipher.text.len)
      m1 == Write(m, clear, Zeros(cipher.text.len))
      params == decrypt_params(key, iv, aad, cipher, clear)
      r == HostDecrypt(h, m1, params, e)
  IN  [params |-> params, res |-> r.res, mem |-> r.mem,
       result |-> Finish(r.res, Ok(Read(r.mem, clear, cipher.text.len), <<>>))]

\* api::decrypt::Params of decrypt_in_place
decrypt_in_place_params(key, iv, aad, tag, buffer) ==
  [key |-> key, iv |-> iv, aad |-> aad.ptr, aad_len |-> aad.len,
   tag |-> tag, length |-> buffer.len, cipher |-> NullPtr, clear |-> buffer.ptr]

decrypt_in_place(h, m, key, iv, aad, tag, buffer, e) ==
  LET params == decrypt_in_place_params(key, iv, aad, tag, buffer)
      r == HostDecrypt(h, m, params, e)
  IN  [params |-> params, res |-> r.res, mem |-> r.mem,
       result |-> Finish(r.res, Ok(<<>>, <<>>))]

(***************************************************************************)
(* The caller.  Every call starts from a memory that holds the caller's    *)
(* key, nonce, associated data, input buffer and tag at their addresses.   *)
(***************************************************************************)
ZeroKey == Zeros(KeyLen)
ZeroIv == Zeros(IvLen)
Keys == {ZeroKey, [ZeroKey EXCEPT ![KeyLen] = 1]}
Ivs == {ZeroIv}
InBytes == {0, 1}
AadBytes == {1}

SeqsUpTo(S, n) == UNION {[1 .. k -> S] : k \in 0 .. n}

Aads == SeqsUpTo(AadBytes, MaxAad)
Texts == SeqsUpTo(InBytes, MaxLen)

\* the address of a caller's slice or vector: one of length 0 may dangle
InPtrs(len) == IF len = 0 THEN {DanglingPtr, BufAt} ELSE {BufAt}

\* what the host does beyond its parameters, per call
Envs(F) == [fault : F, partial : {0, MaxLen}]

Layout(k, n, a, buf, tag) ==
  Write(Write(Write(Write(Write([x \in Addr |-> 0], KeyAt, k), IvAt, n), AadAt, a),
              BufAt, buf), TagAt, tag)

\* flipping bit b of a byte
FlipBit(v, b) == IF (v \div Shl(1, b)) % 2 = 1 THEN v - Shl(1, b) ELSE v + Shl(1, b)
FlipAt(s, pos, b) == [s EXCEPT ![pos] = FlipBit(@, b)]

\* the single-bit changes tried between an encrypt and the decrypt
Tampers(a, text) ==
  {[kind |-> "none", pos |-> 1, bit |-> 0]}
  \cup [kind : {"key"}, pos : {1}, bit : {0}]
  \cup [kind : {"iv"}, pos : {IvLen}, bit : {7}]
  \cup [kind : {"aad"}, pos : 1 .. Len(a), bit : {0}]
  \cup [kind : {"text"}, pos : 1 .. Len(text), bit : {0}]
  \cup [kind : {"tag"}, pos : {1, TagLen}, bit : {0}]

Tamper(s, kind, t) == IF t.kind = kind THEN FlipAt(s, t.pos, t.bit) ELSE s

NoParams ==
  [key |-> NullPtr, iv |-> NullPtr, aad |-> NullPtr, aad_len |-> 0,
   length |-> 0, clear |-> NullPtr, cipher |-> NullPtr, tag |-> NullPtr]

NoFlags == [is |-> FALSE, no_copy |-> FALSE, in_place_no_copy |-> FALSE]

Idle ==
  [op |-> "none", key |-> <<>>, iv |-> <<>>, aad |-> <<>>, input |-> <<>>,
   tag |-> <<>>, inptr |-> NullPtr, params |-> NoParams, res |-> 0,
   result |-> Ok(<<>>, <<>>), clear0 |-> <<>>, tamper |-> "", from |-> "", flags |-> NoFlags]

Init ==
  /\ host \in Hosts
  /\ mem = [x \in Addr |-> 0]
  /\ call = Idle

\* is_supported() is called
IsSupported ==
  /\ call' = [Idle EXCEPT !.op = "is_supported",
                          !.flags = [NoFlags EXCEPT !.is = is_supported(host)]]
  /\ UNCHANGED <<host, mem>>

\* support() is called
Support ==
  /\ call' = [Idle EXCEPT !.op = "support",
                          !.flags = [is |-> FALSE,
                                     no_copy |-> support(host).no_copy,
                                     in_place_no_copy |-> support(host).in_place_no_copy]]
  /\ UNCHANGED <<host, mem>>

\* the caller drops the last result and its buffers; the next encryption
\* starts from there
Release ==
  /\ call.op # "none"
  /\ call' = Idle
  /\ mem' = [x \in Addr |-> 0]
  /\ UNCHANGED host

\* encrypt(&key, &iv, &aad, &clear) is called
Encrypt(F) ==
  /\ call.op = "none"
  /\ \E k \in Keys, n \in Ivs, a \in Aads, msg \in Texts, e \in Envs(F) :
    \E ptr \in InPtrs(Len(msg)) :
      LET r == encrypt(host, Layout(k, n, a, msg, Zeros(TagLen)), KeyAt, IvAt,
                       Slice(AadAt, Len(a)), Slice(ptr, Len(msg)), e)
      IN  /\ mem' = r.mem
          /\ call' = [Idle EXCEPT !.op = "encrypt", !.key = k, !.iv = n, !.aad = a,
                                  !.input = msg, !.inptr = ptr, !.params = r.params,
                                  !.res = r.res, !.result = r.result]
          /\ UNCHANGED host

\* encrypt_in_place(&key, &iv, &aad, &mut buffer) is called
EncryptInPlace(F) ==
  /\ call.op = "none"
  /\ \E k \in Keys, n \in Ivs, a \in Aads, msg \in Texts, e \in Envs(F) :
    \E ptr \in InPtrs(Len(msg)) :
      LET r == encrypt_in_place(host, Layout(k, n, a, msg, Zeros(TagLen)), KeyAt, IvAt,
                                Slice(AadAt, Len(a)), Slice(ptr, Len(msg)), e)
      IN  /\ mem' = r.mem
          /\ call' = [Idle EXCEPT !.op = "encrypt_in_place", !.key = k, !.iv = n,
                                  !.aad = a, !.input = msg, !.inptr = ptr,
                                  !.params = r.params, !.res = r.res,
                                  !.result = r.result]
          /\ UNCHANGED host

\* the last call encrypted successfully: its ciphertext and tag
Sealed == call.op \in {"encrypt", "encrypt_in_place"} /\ call.result.kind = "Ok"
SealedText ==
  IF call.op = "encrypt" THEN call.result.text
  ELSE Read(mem, call.inptr, Len(call.input))

\* decrypt(&key, &iv, &aad, &cipher) is called on the last ciphertext, after
\* one of the changes of T
Decrypt(F, T) ==
  /\ Sealed
  /\ \E t \in Tampers(call.aad, SealedText), e \in Envs(F) :
       \E ptr \in InPtrs(Len(SealedText)) :
         LET k == Tamper(call.key, "key", t)
             n == Tamper(call.iv, "iv", t)
             a == Tamper(call.aad, "aad", t)
             text == Tamper(SealedText, "text", t)
             tag == Tamper(call.result.tag, "tag", t)
             r == decrypt(host, Layout(k, n, a, text, tag), KeyAt, IvAt,
                          Slice(AadAt, Len(a)),
                          [text |-> Slice(ptr, Len(text)), tag |-> TagAt], e)
         IN  /\ t.kind \in T
             /\ mem' = r.mem
             /\ call' = [Idle EXCEPT !.op = "decrypt", !.key = k, !.iv = n, !.aad = a,
                                     !.input = text, !.tag = tag, !.inptr = ptr,
                                     !.params = r.params, !.res = r.res,
                                     !.result = r.result, !.clear0 = call.input,
                                     !.tamper = t.kind, !.from = call.op]
             /\ UNCHANGED host

\* decrypt_in_place(&key, &iv, &aad, &tag, &mut buffer) is called likewise
DecryptInPlace(F, T) ==
  /\ Sealed
  /\ \E t \in Tampers(call.aad, SealedText), e \in Envs(F) :
       \E ptr \in InPtrs(Len(SealedText)) :
         LET k == Tamper(call.key, "key", t)
             n == Tamper(call.iv, "iv", t)
             a == Tamper(call.aad, "aad", t)
             text == Tamper(SealedText, "text", t)
             tag == Tamper(call.result.tag, "tag", t)
             r == decrypt_in_place(host, Layout(k, n, a, text, tag), KeyAt, IvAt,
                                   Slice(AadAt, Len(a)), TagAt,
                                   Slice(ptr, Len(text)), e)
         IN  /\ t.kind \in T
             /\ mem' = r.mem
             /\ call' = [Idle EXCEPT !.op = "decrypt_in_place", !.key = k, !.iv = n,
                                     !.aad = a, !.input = text, !.tag = tag,
                                     !.inptr = ptr, !.params = r.params,
                                     !.res = r.res, !.result = r.result,
                                     !.clear0 = call.input, !.tamper = t.kind,
                                     !.from = call.op]
             /\ UNCHANGED host

TamperKinds == {"none", "key", "iv", "aad", "text", "tag"}

\* The host of the specification: its status is decided by its capability
\* and the parameters alone.
Next ==
  \/ IsSupported
  \/ Support
  \/ Encrypt({0})
  \/ EncryptInPlace({0})
  \/ Decrypt({0}, TamperKinds)
  \/ DecryptInPlace({0}, TamperKinds)
  \/ Release

Spec == Init /\ [][Next]_vars

\* The host as an opaque collaborator: any call may also end with any
\* status code.
InitOpaque == Init /\ host.copy = 0 /\ host.inplace = 0

NextOpaque ==
  \/ IsSupported
  \/ Support
  \/ Encrypt(StatusRange)
  \/ EncryptInPlace(StatusRange)
  \/ Decrypt(StatusRange, {"none"})
  \/ DecryptInPlace(StatusRange, {"none"})
  \/ Release

SpecOpaque == InitOpaque /\ [][NextOpaque]_vars

(***************************************************************************)
(* Properties.                                                             *)
(***************************************************************************)
CallOps == {"encrypt", "encrypt_in_place", "decrypt", "decrypt_in_place"}
CopyOps == {"encrypt", "decrypt"}
InPlaceOps == {"encrypt_in_place", "decrypt_in_place"}

\* bit i of the bitmask b, by division
BitSet(b, i) == (b \div Shl(1, i)) % 2 = 1

\* the bitmask sets no bit other than NoCopy and InPlaceNoCopy
OnlyDefinedBits(b) == b < Shl(1, InPlaceNoCopy + 1)

\* C6: for every host bitmask, support().no_copy is true exactly when bit 0
\* is set and support().in_place_no_copy exactly when bit 1 is set; on the
\* all-zero bitmask is_supported() is false and both flags are false; the
\* two queries can always be called and leave the host and the memory as
\* they were.
C6_CapabilityQuery ==
  /\ [](/\ call.op = "support" =>
             /\ call.flags.no_copy <=> BitSet(host.support, 0)
             /\ call.flags.in_place_no_copy <=> BitSet(host.support, 1)
        /\ (call.op = "is_supported" /\ host.support = 0) => ~call.flags.is
        /\ (call.op = "support" /\ host.support = 0) =>
             (~call.flags.no_copy /\ ~call.flags.in_place_no_copy)
        /\ ENABLED IsSupported
        /\ ENABLED Support)
  /\ [][call'.op \in {"is_supported", "support"} => UNCHANGED <<host, mem>>]_vars

\* support() was called after an encryption on a host that sets bit 1 alone
C6_Witness ==
  /\ call.op = "support"
  /\ host.support = 2
  /\ call.flags.in_place_no_copy
  /\ ~call.flags.no_copy
  /\ \E a \in Addr : mem[a] # 0

\* C10 as stated: is_supported() is true exactly when support() reports at
\* least one of the two flags.
C10_Original ==
  call.op = "is_supported" =>
    (call.flags.is <=> (support(host).no_copy \/ support(host).in_place_no_copy))

\* C10, amended: whenever support() reports a flag, is_supported() is true;
\* and the two agree exactly on every bitmask that sets no bit other than
\* NoCopy and InPlaceNoCopy.
C10_Consistent ==
  call.op = "is_supported" =>
    /\ (support(host).no_copy \/ support(host).in_place_no_copy) => call.flags.is
    /\ OnlyDefinedBits(host.support) =>
         (call.flags.is <=> (support(host).no_copy \/ support(host).in_place_no_copy))

\* is_supported() was called on a host that sets the InPlaceNoCopy bit alone
C10_Witness ==
  call.op = "is_supported" /\ host.support = 2 /\ call.flags.is

\* the host functions in the aliasing mode of the call
ModeFunctions == IF call.op \in InPlaceOps THEN host.inplace = 0 ELSE host.copy = 0

NoPayload == call.result.text = <<>> /\ call.result.tag = <<>>

\* C1: when encrypt(K, N, A, M) succeeded with Cipher C, decrypt(K, N, A, C)
\* succeeds and returns exactly M, for empty and non-empty A and M; the
\* tag of the empty message is not the all-zero tag.
C1_RoundTrip ==
  (call.op = "decrypt" /\ call.from = "encrypt" /\ call.tamper = "none") =>
    /\ call.result.kind = "Ok"
    /\ call.result.text = call.clear0
    /\ Len(call.input) = Len(call.clear0)
    /\ call.tag # Zeros(TagLen)

\* a non-empty message with non-empty associated data came back from decrypt
C1_Witness ==
  /\ call.op = "decrypt"
  /\ call.from = "encrypt"
  /\ call.tamper = "none"
  /\ call.result.kind = "Ok"
  /\ call.clear0 = <<1, 0>>
  /\ call.aad = <<1>>
  /\ call.input # call.clear0

\* C2 as stated: after any single-bit change to the ciphertext, the tag, the
\* AAD, the key or the nonce of a Cipher that encrypt produced, decrypt and
\* decrypt_in_place return AuthenticationFailure and no cleartext.
C2_Original ==
  (call.op \in {"decrypt", "decrypt_in_place"} /\ call.from = "encrypt"
     /\ call.tamper # "none") =>
    (call.result.kind = "AuthenticationFailure" /\ NoPayload)

\* C2, amended: after any such change decrypt and decrypt_in_place never
\* succeed and hand back no cleartext; the error is AuthenticationFailure
\* when the host functions in the aliasing mode of the call, and Unsupported
\* when it does not.
C2_TamperDetected ==
  (call.op \in {"decrypt", "decrypt_in_place"} /\ call.tamper # "none") =>
    /\ call.result.kind # "Ok"
    /\ NoPayload
    /\ ModeFunctions => call.result.kind = "AuthenticationFailure"
    /\ ~ModeFunctions => call.result.kind = "Unsupported"

\* decrypt rejected a ciphertext with one flipped bit
C2_Witness ==
  /\ call.op = "decrypt"
  /\ call.from = "encrypt"
  /\ call.tamper = "text"
  /\ call.result.kind = "AuthenticationFailure"
  /\ Len(call.input) = MaxLen

\* C3: each of the four calls succeeds exactly when the host status is 0;
\* on every other status, positive or negative, it returns an error that
\* carries no Cipher, tag or cleartext.
C3_StatusDecides ==
  call.op \in CallOps =>
    /\ call.result.kind = "Ok" <=> call.res = 0
    /\ call.res # 0 => (call.result.kind \in ErrorKinds /\ NoPayload)

\* encrypt_in_place got a positive status from the host
C3_Witness ==
  /\ call.op = "encrypt_in_place"
  /\ call.res > 0
  /\ call.result.kind \in ErrorKinds
  /\ Len(call.input) = MaxLen

\* C4: a successful encrypt returns a text as long as the cleartext and a
\* tag of 16 bytes, a successful decrypt a cleartext as long as the Cipher
\* text, and the length passed to the host is that same length.
C4_LengthPreserved ==
  call.op \in CopyOps =>
    /\ call.params.length = Len(call.input)
    /\ call.result.kind = "Ok" => Len(call.result.text) = Len(call.input)
    /\ (call.result.kind = "Ok" /\ call.op = "encrypt") => Len(call.result.tag) = TagLen

\* encrypt returned a Cipher for a cleartext of the longest length
C4_Witness ==
  /\ call.op = "encrypt"
  /\ call.result.kind = "Ok"
  /\ Len(call.input) = MaxLen
  /\ Len(call.aad) < MaxLen
  /\ Len(call.result.text) = MaxLen

\* the caller's arguments of the last call, as they were before it
ArgsBefore == Layout(call.key, call.iv, call.aad, call.input, call.tag)
NoFault == [fault |-> 0, partial |-> 0]

\* the copying-mode call on the arguments of the last call
CopyEncrypt ==
  encrypt(host, ArgsBefore, KeyAt, IvAt, Slice(AadAt, Len(call.aad)),
          Slice(call.inptr, Len(call.input)), NoFault)
CopyDecrypt ==
  decrypt(host, ArgsBefore, KeyAt, IvAt, Slice(AadAt, Len(call.aad)),
          [text |-> Slice(call.inptr, Len(call.input)), tag |-> TagAt], NoFault)

\* the caller's in-place buffer after the last call
Buffer == Read(mem, call.inptr, Len(call.input))

\* C5: where both calls succeed, encrypt_in_place leaves in the buffer the
\* bytes of the text of encrypt on the same (K, N, A, M) and returns the
\* same tag, and decrypt_in_place leaves in the buffer the bytes that decrypt
\* returns.
C5_InPlaceEquivalent ==
  /\ (call.op = "encrypt_in_place" /\ call.result.kind = "Ok"
        /\ CopyEncrypt.result.kind = "Ok") =>
       /\ Buffer = CopyEncrypt.result.text
       /\ call.result.tag = CopyEncrypt.result.tag
  /\ (call.op = "decrypt_in_place" /\ call.result.kind = "Ok"
        /\ CopyDecrypt.result.kind = "Ok") =>
       Buffer = CopyDecrypt.result.text

\* encrypt_in_place turned a longest buffer into ciphertext on a host whose
\* copying mode functions too
C5_Witness ==
  /\ call.op = "encrypt_in_place"
  /\ call.result.kind = "Ok"
  /\ CopyEncrypt.result.kind = "Ok"
  /\ Len(call.input) = MaxLen
  /\ Buffer # call.input

SomeCopySucceeds ==
  \E msg \in Texts :
    encrypt(host, Layout(ZeroKey, ZeroIv, <<>>, msg, Zeros(TagLen)), KeyAt, IvAt,
            Slice(AadAt, 0), Slice(BufAt, Len(msg)), NoFault).result.kind = "Ok"
SomeInPlaceSucceeds ==
  \E msg \in Texts :
    encrypt_in_place(host, Layout(ZeroKey, ZeroIv, <<>>, msg, Zeros(TagLen)), KeyAt,
                     IvAt, Slice(AadAt, 0), Slice(BufAt, Len(msg)),
                     NoFault).result.kind = "Ok"

NoFalsePositive ==
  /\ support(host).no_copy => SomeCopySucceeds
  /\ support(host).in_place_no_copy => SomeInPlaceSucceeds

\* C8 as stated: when support().no_copy is false every copying-mode call
\* succeeds or reports Unsupported; and a mode that support() reports has a
\* call that succeeds.
C8_Original ==
  /\ (call.op \in CopyOps /\ ~support(host).no_copy) =>
       call.result.kind \in {"Ok", "Unsupported"}
  /\ NoFalsePositive

\* C8, amended: when support().no_copy is false every copying-mode call
\* either functions (it succeeds, or decrypt reports AuthenticationFailure
\* for a Cipher that does not verify) or reports Unsupported, and which of
\* the two is fixed by the host; and a mode that support() reports has a
\* call that succeeds.
C8_Gating ==
  /\ (call.op \in CopyOps /\ ~support(host).no_copy) =>
       /\ \/ call.result.kind \in {"Ok", "Unsupported"}
          \/ (call.op = "decrypt" /\ call.tamper # "none"
                /\ call.result.kind = "AuthenticationFailure")
       /\ call.result.kind = "Unsupported" <=> host.copy = CodeUnsupported
  /\ NoFalsePositive

\* a host that does not report no_copy still decrypted in copying mode and
\* rejected a changed tag
C8_Witness ==
  /\ ~support(host).no_copy
  /\ support(host).in_place_no_copy
  /\ call.op = "decrypt"
  /\ call.tamper = "tag"
  /\ call.result.kind = "AuthenticationFailure"

\* the addresses [p, p + n) and [q, q + n) share no byte
Disjoint(p, q, n) == p + n <= q \/ q + n <= p

\* the caller's key, nonce, AAD, tag and input are as before the call
ArgsKept ==
  /\ Read(mem, KeyAt, KeyLen) = call.key
  /\ Read(mem, IvAt, IvLen) = call.iv
  /\ Read(mem, AadAt, Len(call.aad)) = call.aad
  /\ Read(mem, call.inptr, Len(call.input)) = call.input
  /\ call.op = "decrypt" => Read(mem, TagAt, TagLen) = call.tag

InPlaceSelected ==
  /\ call.op = "encrypt_in_place" =>
       /\ call.params.clear = NullPtr
       /\ call.params.cipher = call.inptr
       /\ call.params.length = Len(call.input)
  /\ call.op = "decrypt_in_place" =>
       /\ call.params.cipher = NullPtr
       /\ call.params.clear = call.inptr
       /\ call.params.length = Len(call.input)

\* the input and output pointers of the last copying-mode call
InPtr == IF call.op = "encrypt" THEN call.params.clear ELSE call.params.cipher
OutPtr == IF call.op = "encrypt" THEN call.params.cipher ELSE call.params.clear

\* C9 as stated: the in-place calls pass a null input pointer, the caller's
\* buffer as output and its length; the copying calls pass the caller's
\* input as a non-null pointer and a freshly allocated buffer, distinct from
\* the input, as output, and leave the caller's cleartext or Cipher as it
\* was.
C9_Original ==
  /\ InPlaceSelected
  /\ call.op \in CopyOps =>
       /\ InPtr = call.inptr
       /\ InPtr # NullPtr
       /\ OutPtr # InPtr
       /\ ArgsKept

\* C9, amended: as stated, except that the output pointer is a fresh
\* allocation distinct from the input only for a non-empty input; for an
\* input of length 0 the output vector owns no allocation, its pointer is
\* non-null and may equal the input pointer.  In every case the output
\* shares no byte with the input.
C9_ModeSelection ==
  /\ InPlaceSelected
  /\ call.op \in CopyOps =>
       /\ InPtr = call.inptr
       /\ InPtr # NullPtr
       /\ OutPtr # NullPtr
       /\ Len(call.input) > 0 => (OutPtr = HeapAt /\ OutPtr # InPtr)
       /\ Len(call.input) = 0 => OutPtr = DanglingPtr
       /\ Disjoint(InPtr, OutPtr, Len(call.input))
       /\ ArgsKept

\* decrypt wrote the cleartext of a longest Cipher into a fresh buffer
C9_Witness ==
  /\ call.op = "decrypt"
  /\ call.result.kind = "Ok"
  /\ Len(call.input) = MaxLen
  /\ call.params.clear = HeapAt
  /\ Read(mem, HeapAt, MaxLen) = call.clear0

====
